--------------------------- MODULE Spec2Model ---------------------------
(***************************************************************************)
(* Model of GDJS's behavior code generator (BehaviorCodeGenerator.cpp) and *)
(* of the export helper (ExporterHelper.cpp).                              *)
(*                                                                         *)
(* Text (gd::String) is a sequence of atoms.  An atom is either a          *)
(* placeholder token of a template, a chunk of literal template text, or   *)
(* a chunk of caller-supplied text.  Substring search is search for a      *)
(* contiguous sub-sequence of atoms.  The only token that contains another *)
(* token, INITIALIZE_PROPERTIES_CODE, is made of two atoms so that         *)
(* PROPERTIES_CODE is a sub-sequence of it, as it is a substring in C++.   *)
(***************************************************************************)
EXTENDS Integers, Sequences, FiniteSets, TLC

VARIABLES
  \* --- behavior code generation (BehaviorCodeGenerator) ---
  gpc,            \* "ready" | "done"
  extensionName,  \* argument extensionName
  behavior,       \* argument eventsBasedBehavior: [name, fullName, properties, functions]
  codeNamespace,  \* argument codeNamespace
  mangledNames,   \* argument behaviorMethodMangledNames (function name -> method name)
  gIncludeFiles,  \* argument includeFiles (std::set, accumulated)
  requests,       \* calls made to EventsCodeGenerator::GenerateBehaviorEventsFunctionCode
  module,         \* the returned text
  \* --- the include list (ExporterHelper) ---
  includesFiles,  \* std::vector<gd::String> includesFiles
  ops,            \* the calls made on the include list so far
  prevIncludes,   \* the include list before the last call
  \* --- one run of ExporterHelper::ExportProjectForPixiPreview ---
  pc,             \* the stage to run next, "done" after the return
  trace,          \* the stages that ran, in order
  result,         \* "running", then the returned "true" or "false"
  lastError,      \* ExporterHelper::lastError
  optionsProject, \* options.project
  exportedProject,\* the local copy exportedProject
  fsFiles,        \* the files written or copied by the run
  failedWrites,   \* the files fs.WriteToFile failed to write
  missingSources, \* library files absent from gdjsRoot/Runtime
  generatedFrom,  \* per generated code file, the project it was generated from
  dataBundle,     \* what ExportProjectData serialized: [project, options]
  scriptFiles,    \* runtimeGameOptions.scriptFiles: [path, hash]
  indexTags,      \* the script tags of index.html, in order
  \* --- two runs of ExportProjectForPixiPreview at the same time ---
  runs,           \* per run: its stage, options, helper and include list
  disk            \* the file system: per file, the run its content is from

genVars == <<gpc, extensionName, behavior, codeNamespace, mangledNames,
             gIncludeFiles, requests, module>>

inclVars == <<includesFiles, ops, prevIncludes>>

expVars == <<pc, trace, result, lastError, optionsProject, exportedProject,
             fsFiles, failedWrites, missingSources, generatedFrom, dataBundle,
             scriptFiles, indexTags>>

runVars == <<runs, disk>>

vars == <<gpc, extensionName, behavior, codeNamespace, mangledNames,
          gIncludeFiles, requests, module, includesFiles, ops, prevIncludes,
          pc, trace, result, lastError, optionsProject, exportedProject,
          fsFiles, failedWrites, missingSources, generatedFrom, dataBundle,
          scriptFiles, indexTags, runs, disk>>

\* the values of the variables a specification does not use
GenUnused ==
  /\ gpc = "unused" /\ extensionName = <<>> /\ behavior = <<>>
  /\ codeNamespace = <<>> /\ mangledNames = <<>> /\ gIncludeFiles = {}
  /\ requests = <<>> /\ module = <<>>
InclUnused == ops = <<>> /\ prevIncludes = <<>>
RunsUnused == runs = <<>> /\ disk = <<>>
ExpUnused ==
  /\ pc = "unused" /\ trace = <<>> /\ result = "unused" /\ lastError = <<>>
  /\ optionsProject = <<>> /\ exportedProject = <<>> /\ fsFiles = {}
  /\ failedWrites = {} /\ missingSources = {} /\ generatedFrom = <<>>
  /\ dataBundle = <<>> /\ scriptFiles = <<>> /\ indexTags = <<>>

--------------------------------------------------------------------------
(* gd::String helpers *)

\* s.find(pat, from): does pat occur in s at position i
MatchAt(s, pat, i) ==
  /\ i + Len(pat) - 1 <= Len(s)
  /\ \A k \in 1..Len(pat) : s[i + k - 1] = pat[k]

\* gd::String::find(pat) != npos
Contains(s, pat) == \E i \in 1..Len(s) : MatchAt(s, pat, i)

\* the positions of s where pat occurs
Occurrences(s, pat) == {i \in 1..Len(s) : MatchAt(s, pat, i)}

\* s.find(pat, from) over the occurrences: the first one >= from, 0 for npos
Find(occurrences, from) ==
  LET found == {i \in occurrences : i >= from}
  IN IF found = {} THEN 0
     ELSE CHOOSE i \in found : \A j \in found : i <= j

RECURSIVE ReplaceFrom(_, _, _, _, _)
ReplaceFrom(s, occurrences, searchLen, replacement, from) ==
  LET pos == Find(occurrences, from)
  IN IF pos = 0 THEN SubSeq(s, from, Len(s))
     ELSE SubSeq(s, from, pos - 1) \o replacement
            \o ReplaceFrom(s, occurrences, searchLen, replacement, pos + searchLen)

\* gd::String::FindAndReplace(search, replacement): every occurrence, found
\* left to right, is replaced; the search resumes after the inserted text.
FindAndReplace(s, search, replacement) ==
  ReplaceFrom(s, Occurrences(s, search), Len(search), replacement, 1)

RECURSIVE CountFrom(_, _, _)
CountFrom(occurrences, patLen, from) ==
  LET pos == Find(occurrences, from)
  IN IF pos = 0 THEN 0 ELSE 1 + CountFrom(occurrences, patLen, pos + patLen)

\* number of (non-overlapping) occurrences of pat in s
Count(s, pat) == CountFrom(Occurrences(s, pat), Len(pat), 1)

RECURSIVE Concat(_)
Concat(ss) == IF ss = <<>> THEN <<>> ELSE Head(ss) \o Concat(Tail(ss))

--------------------------------------------------------------------------
(* Placeholder tokens *)

EXTENSION_NAME == <<"EXTENSION_NAME">>
BEHAVIOR_NAME == <<"BEHAVIOR_NAME">>
BEHAVIOR_FULL_NAME == <<"BEHAVIOR_FULL_NAME">>
RUNTIME_BEHAVIOR_CLASSNAME == <<"RUNTIME_BEHAVIOR_CLASSNAME">>
CODE_NAMESPACE == <<"CODE_NAMESPACE">>
PROPERTIES_CODE == <<"PROPERTIES_CODE">>
INITIALIZE_PROPERTIES_CODE == <<"INITIALIZE_">> \o PROPERTIES_CODE
UPDATE_FROM_BEHAVIOR_DATA_CODE == <<"UPDATE_FROM_BEHAVIOR_DATA_CODE">>
METHODS_CODE == <<"METHODS_CODE">>
PROPERTY_NAME == <<"PROPERTY_NAME">>
GETTER_NAME == <<"GETTER_NAME">>
SETTER_NAME == <<"SETTER_NAME">>
DEFAULT_VALUE == <<"DEFAULT_VALUE">>

--------------------------------------------------------------------------
(* External collaborators of the code generator *)

\* EventsCodeGenerator::ConvertToString: escapes a plain string
ConvertToString(plainString) ==
  FindAndReplace(
    FindAndReplace(
      FindAndReplace(
        FindAndReplace(plainString, <<"\\">>, <<"\\\\">>),
        <<"\r">>, <<"\\r">>),
      <<"\n">>, <<"\\n">>),
    <<"\"">>, <<"\\\"">>)

\* EventsCodeGenerator::ConvertToStringExplicit: a quoted string literal
ConvertToStringExplicit(plainString) ==
  <<"\"">> \o ConvertToString(plainString) \o <<"\"">>

\* BehaviorCodeGenerator::GetBehaviorPropertyGetterName / SetterName
GetBehaviorPropertyGetterName(propertyName) == <<"_get">> \o propertyName
GetBehaviorPropertySetterName(propertyName) == <<"_set">> \o propertyName

\* Literal chunks the statement compiler wraps a function's body in
FUNCTION_OPEN == <<" = function(parentEventsFunctionContext) {">>
FUNCTION_CLOSE == <<"};">>

\* EventsCodeGenerator::GenerateBehaviorEventsFunctionCode: the method
\* methodFullyQualifiedName, with the compiled statements of the function
GenerateBehaviorEventsFunctionCode(eventsFunction, methodCodeNamespace, methodFullyQualifiedName) ==
  <<"\n">> \o methodCodeNamespace \o <<" = {};\n">>
    \o methodFullyQualifiedName \o FUNCTION_OPEN
    \o eventsFunction.body \o FUNCTION_CLOSE

--------------------------------------------------------------------------
(* BehaviorCodeGenerator *)

GeneratePropertyValueCode(property) ==
  IF property.type = "String" \/ property.type = "Choice"
  THEN ConvertToStringExplicit(property.value)
  ELSE IF property.type = "Number"
  THEN <<"Number(">> \o ConvertToStringExplicit(property.value) \o <<") || 0">>
  ELSE IF property.type = "Boolean"
  THEN (IF property.value = <<"true">> THEN <<"true">> ELSE <<"false">>)
  ELSE <<"0 /* Error: property was of an unrecognized type */">>

InitializePropertyFromDataTemplate ==
  <<"\n    ", "this._behaviorData.">> \o PROPERTY_NAME \o <<" = ", "behaviorData.">>
    \o PROPERTY_NAME \o <<" !== undefined ? ", "behaviorData.">> \o PROPERTY_NAME
    \o <<" : ">> \o DEFAULT_VALUE \o <<";">>

GenerateInitializePropertyFromDataCode(property) ==
  FindAndReplace(
    FindAndReplace(InitializePropertyFromDataTemplate,
                   PROPERTY_NAME, property.name),
    DEFAULT_VALUE, GeneratePropertyValueCode(property))

InitializePropertyFromDefaultValueTemplate ==
  <<"\n    ", "this._behaviorData.">> \o PROPERTY_NAME \o <<" = ">>
    \o DEFAULT_VALUE \o <<";">>

GenerateInitializePropertyFromDefaultValueCode(property) ==
  FindAndReplace(
    FindAndReplace(InitializePropertyFromDefaultValueTemplate,
                   PROPERTY_NAME, property.name),
    DEFAULT_VALUE, GeneratePropertyValueCode(property))

GETTER_OPEN == <<" = function() {\n    return ">>
SETTER_OPEN == <<" = function(newValue) {\n    ">>

RuntimeBehaviorPropertyTemplate ==
  <<"\n">> \o CODE_NAMESPACE \o <<".">> \o RUNTIME_BEHAVIOR_CLASSNAME
    \o <<".prototype.">> \o GETTER_NAME \o GETTER_OPEN
    \o <<"this._behaviorData.">> \o PROPERTY_NAME \o <<" !== undefined ? ">>
    \o <<"this._behaviorData.">> \o PROPERTY_NAME \o <<" : ">> \o DEFAULT_VALUE
    \o <<";\n};\n">>
    \o CODE_NAMESPACE \o <<".">> \o RUNTIME_BEHAVIOR_CLASSNAME
    \o <<".prototype.">> \o SETTER_NAME \o SETTER_OPEN
    \o <<"this._behaviorData.">> \o PROPERTY_NAME \o <<" = newValue;\n};">>

GenerateRuntimeBehaviorPropertyTemplateCode(eventsBasedBehavior, ns, property) ==
  FindAndReplace(
    FindAndReplace(
      FindAndReplace(
        FindAndReplace(
          FindAndReplace(
            FindAndReplace(RuntimeBehaviorPropertyTemplate,
                           PROPERTY_NAME, property.name),
            GETTER_NAME, GetBehaviorPropertyGetterName(property.name)),
          SETTER_NAME, GetBehaviorPropertySetterName(property.name)),
        DEFAULT_VALUE, GeneratePropertyValueCode(property)),
      RUNTIME_BEHAVIOR_CLASSNAME, eventsBasedBehavior.name),
    CODE_NAMESPACE, ns)

UpdatePropertyFromBehaviorDataTemplate ==
  <<"\n    if (oldBehaviorData.">> \o PROPERTY_NAME \o <<" !== newBehaviorData.">>
    \o PROPERTY_NAME \o <<")\n        this._behaviorData.">> \o PROPERTY_NAME
    \o <<" = newBehaviorData.">> \o PROPERTY_NAME \o <<";">>

GenerateUpdatePropertyFromBehaviorDataCode(eventsBasedBehavior, ns, property) ==
  FindAndReplace(UpdatePropertyFromBehaviorDataTemplate,
                 PROPERTY_NAME, property.name)

ON_DESTROY_OPEN == <<".prototype.onDestroy = function() {">>

BehaviorOnDestroyTemplate ==
  <<"\n">> \o CODE_NAMESPACE \o <<".">> \o RUNTIME_BEHAVIOR_CLASSNAME
    \o ON_DESTROY_OPEN
    \o <<"\n  if (this.onOwnerRemovedFromScene) this.onOwnerRemovedFromScene();\n};">>

GenerateBehaviorOnDestroyToDeprecatedOnOwnerRemovedFromScene(eventsBasedBehavior, ns) ==
  FindAndReplace(
    FindAndReplace(BehaviorOnDestroyTemplate,
                   RUNTIME_BEHAVIOR_CLASSNAME, eventsBasedBehavior.name),
    CODE_NAMESPACE, ns)

UNKNOWN_FUNCTION == <<"UNKNOWN_FUNCTION_fix_behaviorMethodMangledNames_please">>
OnOwnerRemovedFromScene == <<"onOwnerRemovedFromScene">>

\* a methods loop that keeps the name of a function without an entry
FunctionNameUnmangled(behaviorMethodMangledNames, eventsFunction) ==
  IF eventsFunction.name \in DOMAIN behaviorMethodMangledNames
  THEN behaviorMethodMangledNames[eventsFunction.name]
  ELSE eventsFunction.name

\* the local functionName of the methods loop: the mangled name of the
\* function, or the sentinel when behaviorMethodMangledNames has no entry
FunctionName(behaviorMethodMangledNames, eventsFunction) ==
  IF eventsFunction.name \in DOMAIN behaviorMethodMangledNames
  THEN behaviorMethodMangledNames[eventsFunction.name]
  ELSE UNKNOWN_FUNCTION

MethodCodeNamespace(eventsBasedBehavior, ns, functionName) ==
  ns \o <<".">> \o eventsBasedBehavior.name \o <<".prototype.">>
    \o functionName \o <<"Context">>

MethodFullyQualifiedName(eventsBasedBehavior, ns, functionName) ==
  ns \o <<".">> \o eventsBasedBehavior.name \o <<".prototype.">> \o functionName

\* the compatibility code of the methods loop (GD <= 5.0 beta 75)
CompatibilityCode(eventsBasedBehavior, ns, functionName) ==
  IF functionName = OnOwnerRemovedFromScene
  THEN GenerateBehaviorOnDestroyToDeprecatedOnOwnerRemovedFromScene(
         eventsBasedBehavior, ns)
  ELSE <<>>

\* one iteration of the methods loop: what it appends to
\* runtimeBehaviorMethodsCode
EventsFunctionMethodCode(eventsBasedBehavior, ns, behaviorMethodMangledNames, eventsFunction) ==
  LET functionName == FunctionName(behaviorMethodMangledNames, eventsFunction)
  IN GenerateBehaviorEventsFunctionCode(
       eventsFunction,
       MethodCodeNamespace(eventsBasedBehavior, ns, functionName),
       MethodFullyQualifiedName(eventsBasedBehavior, ns, functionName))
     \o CompatibilityCode(eventsBasedBehavior, ns, functionName)

\* first lambda of GenerateRuntimeBehaviorCompleteCode
RuntimeBehaviorDataInitializationCode(eventsBasedBehavior) ==
  Concat([i \in 1..Len(eventsBasedBehavior.properties) |->
    LET property == eventsBasedBehavior.properties[i]
    IN IF property.hidden
       THEN GenerateInitializePropertyFromDefaultValueCode(property)
       ELSE GenerateInitializePropertyFromDataCode(property)])

\* second lambda
RuntimeBehaviorPropertyMethodsCode(eventsBasedBehavior, ns) ==
  Concat([i \in 1..Len(eventsBasedBehavior.properties) |->
    GenerateRuntimeBehaviorPropertyTemplateCode(
      eventsBasedBehavior, ns, eventsBasedBehavior.properties[i])])

\* third lambda
RuntimeBehaviorMethodsCode(eventsBasedBehavior, ns, behaviorMethodMangledNames) ==
  Concat([i \in 1..Len(eventsBasedBehavior.functions) |->
    EventsFunctionMethodCode(eventsBasedBehavior, ns, behaviorMethodMangledNames,
                             eventsBasedBehavior.functions[i])])

\* fourth lambda
UpdateFromBehaviorCode(eventsBasedBehavior, ns) ==
  Concat([i \in 1..Len(eventsBasedBehavior.properties) |->
    GenerateUpdatePropertyFromBehaviorDataCode(
      eventsBasedBehavior, ns, eventsBasedBehavior.properties[i])])

\* the calls of the methods loop to the statement compiler, in order
StatementCompilerRequests(eventsBasedBehavior, ns, behaviorMethodMangledNames) ==
  [i \in 1..Len(eventsBasedBehavior.functions) |->
    LET eventsFunction == eventsBasedBehavior.functions[i]
        functionName == FunctionName(behaviorMethodMangledNames, eventsFunction)
    IN [function |-> eventsFunction.name,
        methodCodeNamespace |->
          MethodCodeNamespace(eventsBasedBehavior, ns, functionName),
        methodFullyQualifiedName |->
          MethodFullyQualifiedName(eventsBasedBehavior, ns, functionName)]]

\* the include files the statement compiler adds to includeFiles
StatementCompilerIncludes(eventsBasedBehavior) ==
  UNION {eventsBasedBehavior.functions[i].includes :
           i \in 1..Len(eventsBasedBehavior.functions)}

RuntimeBehaviorTemplate ==
  <<"\n">> \o CODE_NAMESPACE \o <<" = ">> \o CODE_NAMESPACE
    \o <<" || {};\n\n/**\n * Behavior generated from ">> \o BEHAVIOR_FULL_NAME
    \o <<"\n * @class ">> \o RUNTIME_BEHAVIOR_CLASSNAME
    \o <<"\n * @extends gdjs.RuntimeBehavior\n * @constructor\n */\n">>
    \o CODE_NAMESPACE \o <<".">> \o RUNTIME_BEHAVIOR_CLASSNAME
    \o <<" = function(runtimeScene, behaviorData, owner)\n{\n">>
    \o <<"    gdjs.RuntimeBehavior.call(this, runtimeScene, behaviorData, owner);\n">>
    \o <<"    this._runtimeScene = runtimeScene;\n\n">>
    \o <<"    this._behaviorData = {};\n    ">>
    \o INITIALIZE_PROPERTIES_CODE \o <<"\n};\n\n">>
    \o CODE_NAMESPACE \o <<".">> \o RUNTIME_BEHAVIOR_CLASSNAME
    \o <<".prototype = Object.create( gdjs.RuntimeBehavior.prototype );\n">>
    \o <<"gdjs.registerBehavior(\"">> \o EXTENSION_NAME \o <<"::">>
    \o BEHAVIOR_NAME \o <<"\", ">>
    \o CODE_NAMESPACE \o <<".">> \o RUNTIME_BEHAVIOR_CLASSNAME \o <<");\n\n">>
    \o <<"// Hot-reload:\n">>
    \o CODE_NAMESPACE \o <<".">> \o RUNTIME_BEHAVIOR_CLASSNAME
    \o <<".prototype.updateFromBehaviorData = function(oldBehaviorData, newBehaviorData) {\n">>
    \o UPDATE_FROM_BEHAVIOR_DATA_CODE \o <<"\n\n    return true;\n}\n\n">>
    \o <<"// Properties:\n">> \o PROPERTIES_CODE
    \o <<"\n\n// Methods:\n">> \o METHODS_CODE \o <<"\n">>

\* The generate... parameters stand for the values the callbacks return.
GenerateRuntimeBehaviorTemplateCode(extName, eventsBasedBehavior, ns, generateInitializePropertiesCode, generateMethodsCode, generatePropertiesCode, generateUpdateFromBehaviorDataCode) ==
  FindAndReplace(
   FindAndReplace(
    FindAndReplace(
     FindAndReplace(
      FindAndReplace(
       FindAndReplace(
        FindAndReplace(
         FindAndReplace(
          FindAndReplace(RuntimeBehaviorTemplate, EXTENSION_NAME, extName),
          BEHAVIOR_NAME, eventsBasedBehavior.name),
         BEHAVIOR_FULL_NAME, eventsBasedBehavior.fullName),
        RUNTIME_BEHAVIOR_CLASSNAME, eventsBasedBehavior.name),
       CODE_NAMESPACE, ns),
      INITIALIZE_PROPERTIES_CODE, generateInitializePropertiesCode),
     UPDATE_FROM_BEHAVIOR_DATA_CODE, generateUpdateFromBehaviorDataCode),
    PROPERTIES_CODE, generatePropertiesCode),
   METHODS_CODE, generateMethodsCode)

\* The four lambdas are passed in the order initialization, property
\* accessors, event-function methods, update: the accessors arrive as
\* generateMethodsCode and the methods as generatePropertiesCode.
GenerateRuntimeBehaviorCompleteCode(extName, eventsBasedBehavior, ns, behaviorMethodMangledNames) ==
  GenerateRuntimeBehaviorTemplateCode(
    extName, eventsBasedBehavior, ns,
    RuntimeBehaviorDataInitializationCode(eventsBasedBehavior),
    RuntimeBehaviorPropertyMethodsCode(eventsBasedBehavior, ns),
    RuntimeBehaviorMethodsCode(eventsBasedBehavior, ns, behaviorMethodMangledNames),
    UpdateFromBehaviorCode(eventsBasedBehavior, ns))

--------------------------------------------------------------------------
(* Inputs of the code generator *)

MaxProps == 2
MaxFuncs == 3

SeqsUpTo(S, n) == UNION {[1..k -> S] : k \in 0..n}

\* names are unique within their owner
DistinctNames(items) ==
  \A i, j \in 1..Len(items) : i # j => items[i].name # items[j].name

\* extension name and behavior name
NameChoices ==
  {<<(<<"MyExt">>), (<<"Walker">>)>>,
   <<(<<"METHODS_CODE">>), (<<"Walker">>)>>,
   <<(<<"MyExt">>), (<<"PROPERTIES_CODE">>)>>}
Namespaces == {<<"gdjs.evtsExt__MyExt__Walker">>}

TypedValues ==
  {[type |-> "String", value |-> <<"hello">>],
   [type |-> "Number", value |-> <<"12">>],
   [type |-> "Boolean", value |-> <<"true">>],
   [type |-> "Choice", value |-> <<"METHODS_CODE">>],
   [type |-> "Color", value |-> <<"0;0;0">>]}

\* every typed value under the name label; the name that is also a
\* placeholder token with one typed value
PropertyChoices ==
  {[name |-> <<"label">>, type |-> tv.type, value |-> tv.value, hidden |-> h] :
     tv \in TypedValues, h \in BOOLEAN}
  \cup {[name |-> <<"DEFAULT_VALUE">>, type |-> "String", value |-> <<"hello">>,
         hidden |-> h] : h \in BOOLEAN}

PropertyLists ==
  {ps \in SeqsUpTo(PropertyChoices, MaxProps) : DistinctNames(ps)}

EventsFunctionChoices ==
  {[name |-> <<"onOwnerRemovedFromScene">>, body |-> <<"cleanUp();">>,
    includes |-> {}],
   [name |-> <<"doStepPreEvents">>, body |-> <<"step();">>,
    includes |-> {"Extensions/Physics/tools.js"}],
   [name |-> <<"My action">>,
    body |-> <<"log(\"">> \o <<"METHODS_CODE">> \o <<"\");">>,
    includes |-> {"Extensions/Physics/tools.js", "Extensions/Log/log.js"}]}

EventsFunctionLists ==
  {fs \in SeqsUpTo(EventsFunctionChoices, MaxFuncs) : DistinctNames(fs)}

\* behaviorMethodMangledNames: a complete map, and a map that renames two
\* functions and has no entry for the third
MangledNamesChoices ==
  {[n \in {<<"onOwnerRemovedFromScene">>, <<"doStepPreEvents">>, <<"My action">>} |->
      IF n = <<"My action">> THEN <<"My_32action">> ELSE n],
   [n \in {<<"onOwnerRemovedFromScene">>, <<"My action">>} |->
      IF n = <<"My action">> THEN <<"onOwnerRemovedFromScene">>
      ELSE <<"onRemoved">>]}

--------------------------------------------------------------------------
(* The code generator applied to an input *)

GenInit ==
  /\ gpc = "ready"
  /\ codeNamespace \in Namespaces
  /\ mangledNames \in MangledNamesChoices
  /\ \E names \in NameChoices, ps \in PropertyLists, fs \in EventsFunctionLists :
       /\ extensionName = names[1]
       /\ behavior = [name |-> names[2], fullName |-> names[2] \o <<" behavior">>,
                       properties |-> ps, functions |-> fs]
  /\ gIncludeFiles = {}
  /\ requests = <<>>
  /\ module = <<>>
  /\ includesFiles = <<>> /\ InclUnused /\ ExpUnused /\ RunsUnused

Generate ==
  /\ gpc = "ready"
  /\ gpc' = "done"
  /\ module' = GenerateRuntimeBehaviorCompleteCode(
                 extensionName, behavior, codeNamespace, mangledNames)
  /\ requests' = StatementCompilerRequests(behavior, codeNamespace, mangledNames)
  /\ gIncludeFiles' = gIncludeFiles \cup StatementCompilerIncludes(behavior)
  /\ UNCHANGED <<extensionName, behavior, codeNamespace, mangledNames>>
  /\ UNCHANGED <<inclVars, expVars, runVars>>

GenNext == Generate

SpecGen == GenInit /\ [][GenNext]_vars

--------------------------------------------------------------------------
(* ExporterHelper: the include list                                        *)
(*                                                                         *)
(* A path is a sequence of atoms: the separator "/", the four renderer     *)
(* markers wherever a path holds them, and the text in between.            *)

\* an insertion that does not look for the path in the list
InsertAlways(container, str) == Append(container, str)

\* static InsertUnique
InsertUnique(container, str) ==
  IF \E i \in 1..Len(container) : container[i] = str
  THEN container
  ELSE Append(container, str)

RECURSIVE InsertRange(_, _, _, _)
\* the calls InsertUnique(container, strs[lo]), ..., InsertUnique(container,
\* strs[hi]) in this order (the range is halved, and the first half is
\* evaluated before the second, only to keep the evaluation shallow)
InsertRange(container, strs, lo, hi) ==
  IF lo > hi THEN container
  ELSE IF lo = hi THEN InsertUnique(container, strs[lo])
  ELSE LET mid == (lo + hi) \div 2
           first == InsertRange(container, strs, lo, mid)
       IN IF Len(first) >= 0 THEN InsertRange(first, strs, mid + 1, hi)
          ELSE first

\* a run of InsertUnique calls
InsertAll(container, strs) == InsertRange(container, strs, 1, Len(strs))

CommonIncludes ==
  <<<<"libs", "/", "jshashtable.js">>,
    <<"gd.js">>,
    <<"gd-splash-image.js">>,
    <<"libs", "/", "hshg.js">>,
    <<"libs", "/", "rbush.js">>,
    <<"inputmanager.js">>,
    <<"jsonmanager.js">>,
    <<"timemanager.js">>,
    <<"runtimeobject.js">>,
    <<"profiler.js">>,
    <<"runtimescene.js">>,
    <<"scenestack.js">>,
    <<"polygon.js">>,
    <<"force.js">>,
    <<"layer.js">>,
    <<"timer.js">>,
    <<"runtimegame.js">>,
    <<"variable.js">>,
    <<"variablescontainer.js">>,
    <<"oncetriggers.js">>,
    <<"runtimebehavior.js">>,
    <<"spriteruntimeobject.js">>,
    <<"events-tools", "/", "commontools.js">>,
    <<"events-tools", "/", "runtimescenetools.js">>,
    <<"events-tools", "/", "inputtools.js">>,
    <<"events-tools", "/", "objecttools.js">>,
    <<"events-tools", "/", "cameratools.js">>,
    <<"events-tools", "/", "soundtools.js">>,
    <<"events-tools", "/", "storagetools.js">>,
    <<"events-tools", "/", "stringtools.js">>,
    <<"events-tools", "/", "windowtools.js">>,
    <<"events-tools", "/", "networktools.js">>>>

DebuggerClientIncludes ==
  <<<<"websocket-debugger-client", "/", "hot-reloader.js">>,
    <<"websocket-debugger-client", "/", "websocket-debugger-client.js">>>>

PixiIncludes ==
  <<<<"pixi-renderer", "s", "/", "pixi.js">>,
    <<"pixi-renderer", "s", "/", "pixi-filter", "s-tools.js">>,
    <<"pixi-renderer", "s", "/", "runtimegame-", "pixi-renderer", ".js">>,
    <<"pixi-renderer", "s", "/", "runtimescene-", "pixi-renderer", ".js">>,
    <<"pixi-renderer", "s", "/", "layer-", "pixi-renderer", ".js">>,
    <<"pixi-renderer", "s", "/", "pixi-image-manager.js">>,
    <<"pixi-renderer", "s", "/", "spriteruntimeobject-", "pixi-renderer", ".js">>,
    <<"pixi-renderer", "s", "/", "loadingscreen-", "pixi-renderer", ".js">>,
    <<"howler-sound-manager", "/", "howler.min.js">>,
    <<"howler-sound-manager", "/", "howler-sound-manager.js">>,
    <<"fontfaceobserver-font-manager", "/", "fontfaceobserver.js">>,
    <<"fontfaceobserver-font-manager", "/", "fontfaceobserver-font-manager.js">>>>

CocosIncludes ==
  <<<<"cocos-renderer", "s", "/", "cocos-director-manager.js">>,
    <<"cocos-renderer", "s", "/", "cocos-image-manager.js">>,
    <<"cocos-renderer", "s", "/", "cocos-tools.js">>,
    <<"cocos-renderer", "s", "/", "layer-", "cocos-renderer", ".js">>,
    <<"cocos-renderer", "s", "/", "loadingscreen-", "cocos-renderer", ".js">>,
    <<"cocos-renderer", "s", "/", "runtimegame-", "cocos-renderer", ".js">>,
    <<"cocos-renderer", "s", "/", "runtimescene-", "cocos-renderer", ".js">>,
    <<"cocos-renderer", "s", "/", "spriteruntimeobject-", "cocos-renderer", ".js">>,
    <<"cocos-sound-manager", "/", "cocos-sound-manager.js">>,
    <<"fontfaceobserver-font-manager", "/", "fontfaceobserver.js">>,
    <<"fontfaceobserver-font-manager", "/", "fontfaceobserver-font-manager.js">>>>

\* ExporterHelper::AddLibsInclude
AddLibsInclude(pixiRenderers, cocosRenderers, websocketDebuggerClient, container) ==
  LET common == InsertAll(container, CommonIncludes)
      debugger == IF websocketDebuggerClient
                  THEN InsertAll(common, DebuggerClientIncludes) ELSE common
      pixi == IF pixiRenderers THEN InsertAll(debugger, PixiIncludes) ELSE debugger
  IN IF cocosRenderers THEN InsertAll(pixi, CocosIncludes) ELSE pixi

PixiMarkers == {<<"pixi-renderer">>, <<"pixi-filter">>}
CocosMarkers == {<<"cocos-renderer">>, <<"cocos-shader">>}

\* includeFile.find(marker) != npos for one of the markers
HasMarker(includeFile, markers) == \E m \in markers : Contains(includeFile, m)

\* includesFiles.erase(includesFiles.begin() + i), i counted from 1
Erase(container, i) ==
  SubSeq(container, 1, i - 1) \o SubSeq(container, i + 1, Len(container))

\* RemoveStep with the index also moved after an erase
RemoveStepSkipping(st, markers) ==
  IF st.i > Len(st.files) THEN st
  ELSE IF HasMarker(st.files[st.i], markers)
       THEN [files |-> Erase(st.files, st.i), i |-> st.i + 1]
       ELSE [files |-> st.files, i |-> st.i + 1]

\* one iteration of for (i = 0; i < size;) { if (match) erase(i); else ++i; }
\* on the list and the index i (counted from 1); nothing once the loop ended
RemoveStep(st, markers) ==
  IF st.i > Len(st.files) THEN st
  ELSE IF HasMarker(st.files[st.i], markers)
       THEN [files |-> Erase(st.files, st.i), i |-> st.i]
       ELSE [files |-> st.files, i |-> st.i + 1]

RECURSIVE RemoveSteps(_, _, _)
\* n iterations (halved to keep the evaluation shallow)
RemoveSteps(st, markers, n) ==
  IF n = 0 THEN st
  ELSE IF n = 1 THEN RemoveStep(st, markers)
  ELSE LET half == n \div 2
           first == RemoveSteps(st, markers, half)
       IN IF first.i >= 0 THEN RemoveSteps(first, markers, n - half)
          ELSE first

\* the whole loop: every iteration erases an element or moves the index,
\* so it ends within Len(container) iterations
RemoveLoop(container, markers) ==
  RemoveSteps([files |-> container, i |-> 1], markers, Len(container)).files

\* RemoveIncludes with the second loop guarded by the first flag
RemoveIncludesFirstFlagTwice(pixiRenderers, cocosRenderers, container) ==
  LET pixi == IF pixiRenderers THEN RemoveLoop(container, PixiMarkers)
              ELSE container
  IN IF pixiRenderers THEN RemoveLoop(pixi, CocosMarkers) ELSE pixi

\* ExporterHelper::RemoveIncludes
RemoveIncludes(pixiRenderers, cocosRenderers, container) ==
  LET pixi == IF pixiRenderers THEN RemoveLoop(container, PixiMarkers)
              ELSE container
  IN IF cocosRenderers THEN RemoveLoop(pixi, CocosMarkers) ELSE pixi

--------------------------------------------------------------------------
(* The include list under arbitrary calls *)

MaxOps == 3

\* include paths an extension can report
TextObjectInclude ==
  <<"Extensions", "/", "TextObject", "/", "textruntimeobject.js">>
TextObjectPixiInclude ==
  <<"Extensions", "/", "TextObject", "/", "textruntimeobject-", "pixi-renderer", ".js">>
TextObjectCocosInclude ==
  <<"Extensions", "/", "TextObject", "/", "textruntimeobject-", "cocos-renderer", ".js">>
EffectPixiInclude ==
  <<"Extensions", "/", "Effects", "/", "night-", "pixi-filter", ".js">>
EffectCocosInclude ==
  <<"Extensions", "/", "Effects", "/", "night-", "cocos-shader", ".js">>

InsertPool ==
  {<<"gd.js">>, TextObjectPixiInclude, TextObjectCocosInclude,
   EffectPixiInclude, EffectCocosInclude}

Call(op, pixi, cocos, ws, path) ==
  [op |-> op, pixi |-> pixi, cocos |-> cocos, ws |-> ws, path |-> path]

InclInit ==
  /\ includesFiles = <<>>
  /\ ops = <<>>
  /\ prevIncludes = <<>>
  /\ GenUnused /\ ExpUnused /\ RunsUnused

CallInsertUnique ==
  /\ Len(ops) < MaxOps
  /\ \E path \in InsertPool :
       /\ includesFiles' = InsertUnique(includesFiles, path)
       /\ ops' = Append(ops, Call("InsertUnique", FALSE, FALSE, FALSE, path))
  /\ prevIncludes' = includesFiles
  /\ UNCHANGED <<genVars, expVars, runVars>>

CallAddLibsInclude ==
  /\ Len(ops) < MaxOps
  /\ \E pixi \in BOOLEAN, cocos \in BOOLEAN, ws \in BOOLEAN :
       /\ includesFiles' = AddLibsInclude(pixi, cocos, ws, includesFiles)
       /\ ops' = Append(ops, Call("AddLibsInclude", pixi, cocos, ws, <<>>))
  /\ prevIncludes' = includesFiles
  /\ UNCHANGED <<genVars, expVars, runVars>>

CallRemoveIncludes ==
  /\ Len(ops) < MaxOps
  /\ \E pixi \in BOOLEAN, cocos \in BOOLEAN :
       /\ includesFiles' = RemoveIncludes(pixi, cocos, includesFiles)
       /\ ops' = Append(ops, Call("RemoveIncludes", pixi, cocos, FALSE, <<>>))
  /\ prevIncludes' = includesFiles
  /\ UNCHANGED <<genVars, expVars, runVars>>

InclNext == CallInsertUnique \/ CallAddLibsInclude \/ CallRemoveIncludes

SpecIncl == InclInit /\ [][InclNext]_vars

--------------------------------------------------------------------------
(* Properties of the include list *)

LastCall == ops[Len(ops)]

InList(container, str) == \E i \in 1..Len(container) : container[i] = str

\* the path holds an exclusion marker of a renderer selected by the flags
Excluded(path, pixi, cocos) ==
  \/ pixi /\ (Contains(path, <<"pixi-renderer">>) \/ Contains(path, <<"pixi-filter">>))
  \/ cocos /\ (Contains(path, <<"cocos-renderer">>) \/ Contains(path, <<"cocos-shader">>))

\* C5: RemoveIncludes removes all and only the paths that hold an exclusion
\* marker of a selected renderer: whatever the list and the flags, the list
\* after the call is the sub-sequence of the list before it made of the
\* paths without such a marker, in their order.
C5_RemoveIncludesFilters ==
  (ops # <<>> /\ LastCall.op = "RemoveIncludes") =>
    LET Kept(path) == ~Excluded(path, LastCall.pixi, LastCall.cocos)
    IN includesFiles = SelectSeq(prevIncludes, Kept)

\* a call of RemoveIncludes that removed some paths and kept others
C5_Witness ==
  /\ ops # <<>> /\ LastCall.op = "RemoveIncludes"
  /\ LastCall.pixi /\ LastCall.cocos
  /\ Len(includesFiles) > 0
  /\ Len(includesFiles) < Len(prevIncludes)
  /\ \E i \in 1..Len(prevIncludes) : Excluded(prevIncludes[i], TRUE, FALSE)
  /\ \E i \in 1..Len(prevIncludes) : Excluded(prevIncludes[i], FALSE, TRUE)

\* the list was filled by AddLibsInclude calls only, and then one call of
\* RemoveIncludes excluded exactly one renderer
FilledThenFiltered ==
  /\ Len(ops) >= 2
  /\ \A i \in 1..(Len(ops) - 1) : ops[i].op = "AddLibsInclude"
  /\ LastCall.op = "RemoveIncludes"
  /\ LastCall.pixi # LastCall.cocos

Range(strs) == {strs[i] : i \in 1..Len(strs)}

\* what AddLibsInclude inserts under the flag of the excluded renderer only,
\* and what it inserts under the flag of the kept renderer
ExcludedOnlyPaths ==
  IF LastCall.cocos THEN Range(CocosIncludes) \ Range(PixiIncludes)
  ELSE Range(PixiIncludes) \ Range(CocosIncludes)
KeptPaths ==
  IF LastCall.cocos THEN Range(PixiIncludes) ELSE Range(CocosIncludes)
KeptFlagWasSet ==
  \E i \in 1..(Len(ops) - 1) :
    IF LastCall.cocos THEN ops[i].pixi ELSE ops[i].cocos

\* the sound manager of the excluded renderer
ExcludedSoundManagerPaths ==
  IF LastCall.cocos
  THEN {<<"cocos-sound-manager", "/", "cocos-sound-manager.js">>}
  ELSE {<<"howler-sound-manager", "/", "howler.min.js">>,
        <<"howler-sound-manager", "/", "howler-sound-manager.js">>}

--------------------------------------------------------------------------
(* ExporterHelper: one preview export                                      *)

\* gd::AbstractFileSystem::IsAbsolute
IsAbsolute(path) == path # <<>> /\ path[1] = "/"

\* gd::AbstractFileSystem::FileNameFrom: what follows the last separator
FileNameFrom(path) ==
  LET seps == {i \in 1..Len(path) : path[i] = "/"}
  IN IF seps = {} THEN path
     ELSE SubSeq(path, (CHOOSE i \in seps : \A j \in seps : j <= i) + 1, Len(path))

\* gd::AbstractFileSystem::MakeRelative: path without the leading baseDirectory
MakeRelative(path, baseDirectory) ==
  IF MatchAt(path, baseDirectory, 1)
  THEN SubSeq(path, Len(baseDirectory) + 1, Len(path))
  ELSE path

\* gd::String::From(i)
From(i) == <<"0", "1", "2", "3", "4", "5", "6", "7", "8", "9">>[i + 1]

\* the arguments of the constructor and the export options
gdjsRoot == <<"/", "gdjs">>
codeOutputDir == <<"/", "tmp", "/", "code">>
exportPath == <<"/", "tmp", "/", "preview">>
layoutName == "Level"
IncludeFileHashes ==
  [path \in {<<"gd.js">>, <<"Extensions", "/", "TextObject", "/", "textruntimeobject.js">>}
     |-> IF path = <<"gd.js">> THEN 1234 ELSE 42]

DataJs == codeOutputDir \o <<"/", "data.js">>
IndexHtml == exportPath \o <<"/", "index.html">>

MaxLayouts == 2

\* the sets of include files a code generator can report
IncludeChoices ==
  {{},
   {TextObjectInclude, TextObjectPixiInclude, TextObjectCocosInclude},
   {<<"gd.js">>, EffectPixiInclude, EffectCocosInclude},
   {DataJs}}

\* the paths of IncludeChoices in the order of std::set<gd::String>
SortedIncludes ==
  <<DataJs, EffectCocosInclude, EffectPixiInclude, TextObjectCocosInclude,
    TextObjectPixiInclude, TextObjectInclude, <<"gd.js">>>>

\* for (auto &include : set): the elements in increasing order
SetIteration(set) ==
  LET Member(path) == path \in set IN SelectSeq(SortedIncludes, Member)

\* a run that strips the project before it generates the events code
StageAfterStrippingFirst(stage) ==
  CASE stage = "PrepareOutputDir" -> "ExportResources"
    [] stage = "ExportResources" -> "ApplyLegacyAssetCompat"
    [] stage = "ApplyLegacyAssetCompat" -> "BuildEngineIncludes"
    [] stage = "BuildEngineIncludes" -> "BuildEffectIncludes"
    [] stage = "BuildEffectIncludes" -> "StripProjectForExport"
    [] stage = "StripProjectForExport" -> "GenerateEventCode"
    [] stage = "GenerateEventCode" -> "ExportExternalSources"
    [] stage = "ExportExternalSources" -> "FilterIncludesForTarget"
    [] stage = "FilterIncludesForTarget" -> "BuildRuntimeOptionsDocument"
    [] stage = "BuildRuntimeOptionsDocument" -> "WriteDataBundle"
    [] stage = "WriteDataBundle" -> "MaterializeIncludes"
    [] stage = "MaterializeIncludes" -> "RenderEntryPoint"
    [] stage = "RenderEntryPoint" -> "done"

\* the stages of ExportProjectForPixiPreview, in the order of its statements
StageAfter(stage) ==
  CASE stage = "PrepareOutputDir" -> "ExportResources"
    [] stage = "ExportResources" -> "ApplyLegacyAssetCompat"
    [] stage = "ApplyLegacyAssetCompat" -> "BuildEngineIncludes"
    [] stage = "BuildEngineIncludes" -> "BuildEffectIncludes"
    [] stage = "BuildEffectIncludes" -> "GenerateEventCode"
    [] stage = "GenerateEventCode" -> "ExportExternalSources"
    [] stage = "ExportExternalSources" -> "StripProjectForExport"
    [] stage = "StripProjectForExport" -> "FilterIncludesForTarget"
    [] stage = "FilterIncludesForTarget" -> "BuildRuntimeOptionsDocument"
    [] stage = "BuildRuntimeOptionsDocument" -> "WriteDataBundle"
    [] stage = "WriteDataBundle" -> "MaterializeIncludes"
    [] stage = "MaterializeIncludes" -> "RenderEntryPoint"
    [] stage = "RenderEntryPoint" -> "done"

\* a stage ran to its end and the run goes on
Advance(stage) ==
  /\ trace' = Append(trace, stage)
  /\ pc' = StageAfter(stage)
  /\ result' = "running"

\* a stage ran and ExportProjectForPixiPreview returned
Return(stage, value) ==
  /\ trace' = Append(trace, stage)
  /\ pc' = "done"
  /\ result' = value

SourceFilesChoices ==
  {<<>>,
   <<[language |-> "Javascript", fileName |-> <<"tools.js">>, copies |-> TRUE]>>,
   <<[language |-> "C++", fileName |-> <<"native.cpp">>, copies |-> TRUE],
     [language |-> "Javascript", fileName |-> <<"gone.js">>, copies |-> FALSE]>>}

\* outputDir + "/" + "code" + gd::String::From(i) + ".js"
CodeFilename(outputDir, i) == outputDir \o <<"/", "code", From(i), ".js">>

\* the files fs.WriteToFile cannot write
FailedWritesChoices ==
  {{}, {CodeFilename(codeOutputDir, 1)}, {DataJs}, {IndexHtml}}

\* the include files that are not in the Runtime directory of GDJS
MissingSourcesChoices == {{}, {<<"gd.js">>, TextObjectInclude}}

ExpInit ==
  /\ pc = "PrepareOutputDir"
  /\ trace = <<>>
  /\ result = "running"
  /\ lastError = <<>>
  /\ \E n \in 0..MaxLayouts, sources \in SourceFilesChoices :
       optionsProject =
         [showGDevelopSplash |-> TRUE,
          resources |-> {<<"/", "proj", "/", "assets", "/", "hero.png">>},
          fontResources |-> {},
          firstLayout |-> "Menu",
          layoutsCount |-> n,
          sourceFiles |-> sources,
          stripped |-> FALSE]
  /\ exportedProject = <<>>
  /\ fsFiles = {}
  /\ failedWrites \in FailedWritesChoices
  /\ missingSources \in MissingSourcesChoices
  /\ generatedFrom = <<>>
  /\ dataBundle = <<>>
  /\ scriptFiles = <<>>
  /\ indexTags = <<>>
  /\ includesFiles = <<>>
  /\ InclUnused /\ GenUnused /\ RunsUnused

\* fs.MkDir, fs.ClearDir, the empty include list, the copy of the project
\* and ShowGDevelopSplash(false)
PrepareOutputDir ==
  /\ pc = "PrepareOutputDir"
  /\ Advance("PrepareOutputDir")
  /\ fsFiles' = {}
  /\ includesFiles' = <<>>
  /\ exportedProject' = [optionsProject EXCEPT !.showGDevelopSplash = FALSE]
  /\ UNCHANGED <<lastError, optionsProject, failedWrites, missingSources,
                 generatedFrom, dataBundle, scriptFiles, indexTags>>
  /\ UNCHANGED <<ops, prevIncludes, genVars, runVars>>

\* ExporterHelper::ExportResources: the resources are copied to the export
\* directory and the project refers to the copies
ExportResources ==
  /\ pc = "ExportResources"
  /\ Advance("ExportResources")
  /\ exportedProject' =
       [exportedProject EXCEPT
          !.resources = {FileNameFrom(r) : r \in exportedProject.resources}]
  /\ fsFiles' = fsFiles \cup
       {exportPath \o <<"/">> \o FileNameFrom(r) : r \in exportedProject.resources}
  /\ UNCHANGED <<lastError, optionsProject, failedWrites, missingSources,
                 generatedFrom, dataBundle, scriptFiles, indexTags>>
  /\ UNCHANGED <<inclVars, genVars, runVars>>

\* ExporterHelper::AddDeprecatedFontFilesToFontResources: a font resource
\* for each .TTF file found
ApplyLegacyAssetCompat ==
  /\ pc = "ApplyLegacyAssetCompat"
  /\ Advance("ApplyLegacyAssetCompat")
  /\ \E ttfFiles \in {{}, {<<"arial.TTF">>}} :
       exportedProject' =
         [exportedProject EXCEPT !.fontResources = @ \cup ttfFiles]
  /\ UNCHANGED <<lastError, optionsProject, fsFiles, failedWrites,
                 missingSources, generatedFrom, dataBundle, scriptFiles,
                 indexTags>>
  /\ UNCHANGED <<inclVars, genVars, runVars>>

\* AddLibsInclude(true, false, true, includesFiles)
BuildEngineIncludes ==
  /\ pc = "BuildEngineIncludes"
  /\ Advance("BuildEngineIncludes")
  /\ includesFiles' = AddLibsInclude(TRUE, FALSE, TRUE, includesFiles)
  /\ UNCHANGED <<lastError, optionsProject, exportedProject, fsFiles,
                 failedWrites, missingSources, generatedFrom, dataBundle,
                 scriptFiles, indexTags>>
  /\ UNCHANGED <<ops, prevIncludes, genVars, runVars>>

\* ExporterHelper::ExportEffectIncludes
ExportEffectIncludes(effectIncludes, container) ==
  InsertAll(container, SetIteration(effectIncludes))

BuildEffectIncludes ==
  /\ pc = "BuildEffectIncludes"
  /\ Advance("BuildEffectIncludes")
  /\ \E effectIncludes \in IncludeChoices :
       includesFiles' = ExportEffectIncludes(effectIncludes, includesFiles)
  /\ UNCHANGED <<lastError, optionsProject, exportedProject, fsFiles,
                 failedWrites, missingSources, generatedFrom, dataBundle,
                 scriptFiles, indexTags>>
  /\ UNCHANGED <<ops, prevIncludes, genVars, runVars>>

\* fs.WriteToFile(filename, ...)
WriteToFile(failed, filename) == filename \notin failed

\* fs.FileExists: a file of the Runtime directory of GDJS unless it is
\* missing, any other file if it was written or copied
FileExists(files, missing, path) ==
  LET runtime == gdjsRoot \o <<"/", "Runtime", "/">>
  IN IF MatchAt(path, runtime, 1)
     THEN MakeRelative(path, runtime) \notin missing
     ELSE path \in files

\* ExporterHelper::ExportEventsCode, from layout i on; st holds the include
\* list, the files written, the layouts whose code was generated, and the
\* error
RECURSIVE ExportEventsCodeFrom(_, _, _, _, _, _)
ExportEventsCodeFrom(project, outputDir, failed, eventsIncludes, st, i) ==
  IF i >= project.layoutsCount THEN st
  ELSE
    LET filename == CodeFilename(outputDir, i)
        generated == Append(st.generatedFrom,
                            [layout |-> i,
                             stripped |-> project.stripped,
                             resources |-> project.resources])
    IN IF WriteToFile(failed, filename)
       THEN ExportEventsCodeFrom(project, outputDir, failed, eventsIncludes,
              [st EXCEPT
                 !.includesFiles =
                    InsertUnique(
                      InsertAll(@, SetIteration(eventsIncludes[i + 1])),
                      filename),
                 !.files = @ \cup {filename},
                 !.generatedFrom = generated],
              i + 1)
       ELSE [st EXCEPT !.generatedFrom = generated,
                       !.lastError = <<"Unable to write ">> \o filename,
                       !.ok = FALSE]

\* a generation whose includes and code files come before the paths the list
\* already holds
ExportEventsCodeBeforeLibs(project, outputDir, failed, eventsIncludes, files, container, error) ==
  LET st == ExportEventsCodeFrom(project, outputDir, failed, eventsIncludes,
              [includesFiles |-> <<>>, files |-> files,
               generatedFrom |-> <<>>, lastError |-> error, ok |-> TRUE], 0)
  IN [st EXCEPT !.includesFiles = InsertAll(@, container)]

ExportEventsCode(project, outputDir, failed, eventsIncludes, files, container, error) ==
  ExportEventsCodeFrom(project, outputDir, failed, eventsIncludes,
    [includesFiles |-> container, files |-> files, generatedFrom |-> <<>>,
     lastError |-> error, ok |-> TRUE], 0)

GenerateEventCode ==
  /\ pc = "GenerateEventCode"
  /\ \E eventsIncludes \in [1..exportedProject.layoutsCount -> IncludeChoices] :
       LET st == ExportEventsCode(exportedProject, codeOutputDir, failedWrites,
                                  eventsIncludes, fsFiles, includesFiles,
                                  lastError)
       IN /\ includesFiles' = st.includesFiles
          /\ fsFiles' = st.files
          /\ generatedFrom' = st.generatedFrom
          /\ lastError' = st.lastError
          /\ IF st.ok THEN Advance("GenerateEventCode")
                      ELSE Return("GenerateEventCode", "false")
  /\ UNCHANGED <<optionsProject, exportedProject, failedWrites,
                 missingSources, dataBundle, scriptFiles, indexTags>>
  /\ UNCHANGED <<ops, prevIncludes, genVars, runVars>>

\* ExporterHelper::ExportExternalSourceFiles, from source file i on
RECURSIVE ExportExternalSourceFilesFrom(_, _, _, _)
ExportExternalSourceFilesFrom(allFiles, outputDir, st, i) ==
  IF i >= Len(allFiles) THEN st
  ELSE IF allFiles[i + 1].language # "Javascript"
  THEN ExportExternalSourceFilesFrom(allFiles, outputDir, st, i + 1)
  ELSE
    LET outFilename == <<"ext-code", From(i), ".js">>
    IN ExportExternalSourceFilesFrom(allFiles, outputDir,
         [includesFiles |-> InsertUnique(st.includesFiles, outputDir \o outFilename),
          files |-> IF allFiles[i + 1].copies
                    THEN st.files \cup {outputDir \o outFilename}
                    ELSE st.files,
          ok |-> TRUE],
         i + 1)

ExportExternalSourceFiles(project, outputDir, files, container) ==
  ExportExternalSourceFilesFrom(project.sourceFiles, outputDir,
    [includesFiles |-> container, files |-> files, ok |-> TRUE], 0)

ExportExternalSources ==
  /\ pc = "ExportExternalSources"
  /\ LET st == ExportExternalSourceFiles(exportedProject, codeOutputDir,
                                         fsFiles, includesFiles)
     IN /\ includesFiles' = st.includesFiles
        /\ fsFiles' = st.files
        /\ IF st.ok THEN Advance("ExportExternalSources")
                    ELSE Return("ExportExternalSources", "false")
  /\ UNCHANGED <<lastError, optionsProject, exportedProject, failedWrites,
                 missingSources, generatedFrom, dataBundle, scriptFiles,
                 indexTags>>
  /\ UNCHANGED <<ops, prevIncludes, genVars, runVars>>

\* a stripping that works on the project of the options as well
StripProjectForExportInPlace ==
  /\ pc = "StripProjectForExport"
  /\ Advance("StripProjectForExport")
  /\ exportedProject' =
       [exportedProject EXCEPT !.stripped = TRUE, !.firstLayout = layoutName]
  /\ optionsProject' =
       [optionsProject EXCEPT !.stripped = TRUE, !.firstLayout = layoutName]
  /\ UNCHANGED <<lastError, fsFiles, failedWrites, missingSources,
                 generatedFrom, dataBundle, scriptFiles, indexTags>>
  /\ UNCHANGED <<inclVars, genVars, runVars>>

\* gd::ProjectStripper::StripProjectForExport and SetFirstLayout
StripProjectForExport ==
  /\ pc = "StripProjectForExport"
  /\ Advance("StripProjectForExport")
  /\ exportedProject' =
       [exportedProject EXCEPT !.stripped = TRUE, !.firstLayout = layoutName]
  /\ UNCHANGED <<lastError, optionsProject, fsFiles, failedWrites,
                 missingSources, generatedFrom, dataBundle, scriptFiles,
                 indexTags>>
  /\ UNCHANGED <<inclVars, genVars, runVars>>

\* a filtering for the other renderer: RemoveIncludes(true, false, ...)
FilterIncludesForOtherTarget ==
  /\ pc = "FilterIncludesForTarget"
  /\ Advance("FilterIncludesForTarget")
  /\ includesFiles' = RemoveIncludes(TRUE, FALSE, includesFiles)
  /\ UNCHANGED <<lastError, optionsProject, exportedProject, fsFiles,
                 failedWrites, missingSources, generatedFrom, dataBundle,
                 scriptFiles, indexTags>>
  /\ UNCHANGED <<ops, prevIncludes, genVars, runVars>>

\* RemoveIncludes(false, true, includesFiles)
FilterIncludesForTarget ==
  /\ pc = "FilterIncludesForTarget"
  /\ Advance("FilterIncludesForTarget")
  /\ includesFiles' = RemoveIncludes(FALSE, TRUE, includesFiles)
  /\ UNCHANGED <<lastError, optionsProject, exportedProject, fsFiles,
                 failedWrites, missingSources, generatedFrom, dataBundle,
                 scriptFiles, indexTags>>
  /\ UNCHANGED <<ops, prevIncludes, genVars, runVars>>

externalLayoutName == <<"Hud">>

\* a scriptFiles element that ignores options.includeFileHashes
ScriptFilesElementWithoutHashes(container, includeFileHashes) ==
  [i \in 1..Len(container) |-> [path |-> container[i], hash |-> 0]]

\* the scriptFiles element of runtimeGameOptions: one child for each include
\* file, with the hash of options.includeFileHashes or 0
ScriptFilesElement(container, includeFileHashes) ==
  [i \in 1..Len(container) |->
     [path |-> container[i],
      hash |-> IF container[i] \in DOMAIN includeFileHashes
               THEN includeFileHashes[container[i]]
               ELSE 0]]

BuildRuntimeOptionsDocument ==
  /\ pc = "BuildRuntimeOptionsDocument"
  /\ Advance("BuildRuntimeOptionsDocument")
  /\ scriptFiles' = ScriptFilesElement(includesFiles, IncludeFileHashes)
  /\ UNCHANGED <<lastError, optionsProject, exportedProject, fsFiles,
                 failedWrites, missingSources, generatedFrom, dataBundle,
                 indexTags>>
  /\ UNCHANGED <<inclVars, genVars, runVars>>

\* ExporterHelper::ExportProjectData: the error message, empty on success
ExportProjectData(failed, filename) ==
  IF ~WriteToFile(failed, filename)
  THEN <<"Unable to write ">> \o filename
  ELSE <<>>

\* the call of ExportProjectData, whose result is dropped, and the
\* push_back of the data file
WriteDataBundle ==
  /\ pc = "WriteDataBundle"
  /\ Advance("WriteDataBundle")
  /\ LET error == ExportProjectData(failedWrites, DataJs)
     IN IF error = <<>>
        THEN /\ dataBundle' =
                  [projectData |-> exportedProject,
                   runtimeGameOptions |->
                     [isPreview |-> TRUE,
                      injectExternalLayout |-> externalLayoutName,
                      scriptFiles |-> scriptFiles]]
             /\ fsFiles' = fsFiles \cup {DataJs}
        ELSE UNCHANGED <<dataBundle, fsFiles>>
  /\ includesFiles' = Append(includesFiles, DataJs)
  /\ UNCHANGED <<lastError, optionsProject, exportedProject, failedWrites,
                 missingSources, generatedFrom, scriptFiles, indexTags>>
  /\ UNCHANGED <<ops, prevIncludes, genVars, runVars>>

\* the file an include is read from by ExportIncludesAndLibs
IncludeSource(include) ==
  IF IsAbsolute(include) THEN include
  ELSE gdjsRoot \o <<"/", "Runtime", "/">> \o include

\* the file an include is copied to by ExportIncludesAndLibs
IncludeDestination(include, exportDir) ==
  IF IsAbsolute(include) THEN exportDir \o <<"/">> \o FileNameFrom(include)
  ELSE exportDir \o <<"/">> \o include

\* a materialization that copies and rewrites without fs.FileExists
ExportIncludesAndLibsUnchecked(container, exportDir, files, missing) ==
  [includesFiles |->
     [i \in 1..Len(container) |-> LET include == container[i] IN
        IF IsAbsolute(include) THEN FileNameFrom(include) ELSE include],
   files |-> files \cup
     {IncludeDestination(container[i], exportDir) : i \in 1..Len(container)}]

\* ExporterHelper::ExportIncludesAndLibs: the include list after the loop
\* and the files of the export directory
ExportIncludesAndLibs(container, exportDir, files, missing) ==
  LET Found(include) == FileExists(files, missing, IncludeSource(include))
  IN [includesFiles |->
        [i \in 1..Len(container) |->
           IF ~Found(container[i]) THEN container[i]
           ELSE IF IsAbsolute(container[i]) THEN FileNameFrom(container[i])
           ELSE MakeRelative(IncludeSource(container[i]),
                             gdjsRoot \o <<"/", "Runtime", "/">>)],
      files |-> files \cup
        {IncludeDestination(container[i], exportDir) :
           i \in {j \in 1..Len(container) : Found(container[j])}}]

MaterializeIncludes ==
  /\ pc = "MaterializeIncludes"
  /\ Advance("MaterializeIncludes")
  /\ LET st == ExportIncludesAndLibs(includesFiles, exportPath, fsFiles,
                                     missingSources)
     IN /\ includesFiles' = st.includesFiles
        /\ fsFiles' = st.files
  /\ UNCHANGED <<lastError, optionsProject, exportedProject, failedWrites,
                 missingSources, generatedFrom, dataBundle, scriptFiles,
                 indexTags>>
  /\ UNCHANGED <<ops, prevIncludes, genVars, runVars>>

\* ExporterHelper::CompleteIndexFile: the sources of the script tags
CompleteIndexFile(exportDir, container, files, missing) ==
  LET Tagged(include) ==
        \/ IsAbsolute(include)
        \/ FileExists(files, missing, exportDir \o <<"/">> \o include)
  IN SelectSeq(container, Tagged)

\* an ExportPixiIndexFile that returns false without a message
ExportPixiIndexFileSilent(exportDir, container, files, missing, failed, error) ==
  LET str == CompleteIndexFile(exportDir, container, files, missing)
  IN IF ~WriteToFile(failed, exportDir \o <<"/", "index.html">>)
     THEN [ok |-> FALSE, lastError |-> error, files |-> files, tags |-> <<>>]
     ELSE [ok |-> TRUE, lastError |-> error,
           files |-> files \cup {exportDir \o <<"/", "index.html">>},
           tags |-> str]

\* ExporterHelper::ExportPixiIndexFile
ExportPixiIndexFile(exportDir, container, files, missing, failed, error) ==
  LET str == CompleteIndexFile(exportDir, container, files, missing)
  IN IF ~WriteToFile(failed, exportDir \o <<"/", "index.html">>)
     THEN [ok |-> FALSE, lastError |-> <<"Unable to write index file.">>,
           files |-> files, tags |-> <<>>]
     ELSE [ok |-> TRUE, lastError |-> error,
           files |-> files \cup {exportDir \o <<"/", "index.html">>},
           tags |-> str]

RenderEntryPoint ==
  /\ pc = "RenderEntryPoint"
  /\ LET st == ExportPixiIndexFile(exportPath, includesFiles, fsFiles,
                                   missingSources, failedWrites, lastError)
     IN /\ fsFiles' = st.files
        /\ indexTags' = st.tags
        /\ lastError' = st.lastError
        /\ IF st.ok THEN Return("RenderEntryPoint", "true")
                    ELSE Return("RenderEntryPoint", "false")
  /\ UNCHANGED <<optionsProject, exportedProject, failedWrites,
                 missingSources, generatedFrom, dataBundle, scriptFiles>>
  /\ UNCHANGED <<inclVars, genVars, runVars>>

Next ==
  \/ PrepareOutputDir
  \/ ExportResources
  \/ ApplyLegacyAssetCompat
  \/ BuildEngineIncludes
  \/ BuildEffectIncludes
  \/ GenerateEventCode
  \/ ExportExternalSources
  \/ StripProjectForExport
  \/ FilterIncludesForTarget
  \/ BuildRuntimeOptionsDocument
  \/ WriteDataBundle
  \/ MaterializeIncludes
  \/ RenderEntryPoint

Spec == ExpInit /\ [][Next]_vars

--------------------------------------------------------------------------
(* Properties of an export run *)

StageOrder ==
  <<"PrepareOutputDir", "ExportResources", "ApplyLegacyAssetCompat",
    "BuildEngineIncludes", "BuildEffectIncludes", "GenerateEventCode",
    "ExportExternalSources", "StripProjectForExport",
    "FilterIncludesForTarget", "BuildRuntimeOptionsDocument",
    "WriteDataBundle", "MaterializeIncludes", "RenderEntryPoint">>

Ran(stage) == stage \in Range(trace)

\* C2: the stages of a run execute in the order PrepareOutputDir, ...,
\* RenderEntryPoint, each after its predecessor has completed: the stages
\* that ran are a prefix of that order, the stage to run is the next one,
\* the code of every layout was generated from the project with its
\* resources exported and not yet stripped, the project is stripped only
\* once the code of all layouts is generated, and the includes are
\* materialized only after the filtering.
C2_StagesInOrder ==
  /\ Len(trace) <= Len(StageOrder)
  /\ \A i \in 1..Len(trace) : trace[i] = StageOrder[i]
  /\ pc # "done" => Len(trace) < Len(StageOrder) /\ pc = StageOrder[Len(trace) + 1]
  /\ \A i \in 1..Len(generatedFrom) :
       /\ ~generatedFrom[i].stripped
       /\ generatedFrom[i].resources =
            {FileNameFrom(r) : r \in optionsProject.resources}
       /\ Ran("ExportResources")
  /\ exportedProject # <<>> /\ exportedProject.stripped =>
       /\ Len(generatedFrom) = exportedProject.layoutsCount
       /\ Ran("GenerateEventCode")
  /\ Ran("MaterializeIncludes") =>
       /\ Ran("FilterIncludesForTarget")
       /\ \A i \in 1..Len(includesFiles) :
            ~HasMarker(includesFiles[i], CocosMarkers)

C2_Witness ==
  /\ pc = "done"
  /\ result = "true"
  /\ trace = StageOrder
  /\ Len(generatedFrom) >= 2
  /\ exportedProject.stripped

\* C3: when the write of a generated code file or of the data file fails,
\* the run ends in failure and neither the materialization of the includes
\* nor the rendering of the entry point is executed.
C3_HardFailuresAbort ==
  LET codeWriteFailed ==
        /\ Ran("GenerateEventCode")
        /\ \E i \in 0..(optionsProject.layoutsCount - 1) :
             CodeFilename(codeOutputDir, i) \in failedWrites
      dataWriteFailed ==
        /\ Ran("WriteDataBundle")
        /\ DataJs \in failedWrites
  IN codeWriteFailed \/ dataWriteFailed =>
       /\ pc = "done"
       /\ result = "false"
       /\ ~Ran("MaterializeIncludes")
       /\ ~Ran("RenderEntryPoint")

\* C4: no path occurs twice in the include list, in every state of a run.
C4_NoDuplicateIncludes ==
  \A i, j \in 1..Len(includesFiles) :
    includesFiles[i] = includesFiles[j] => i = j

--------------------------------------------------------------------------
(* Properties of the generated behavior module *)

RECURSIVE ConcatRange(_, _, _)
ConcatRange(ss, lo, hi) ==
  IF lo > hi THEN <<>>
  ELSE IF lo = hi THEN ss[lo]
  ELSE LET mid == (lo + hi) \div 2
           first == ConcatRange(ss, lo, mid)
       IN IF Len(first) >= 0 THEN first \o ConcatRange(ss, mid + 1, hi)
          ELSE <<>>

\* A rendering of template that scans the template once: each pair is a
\* token and its value, an occurrence of a token in the template belongs to
\* the first pair that matches there, and the values are not scanned.
RenderOnce(template, pairs) ==
  LET Matches(k) == Occurrences(template, pairs[k].token)
      Covers(k, p, i) == p <= i /\ i < p + Len(pairs[k].token)
      Overlap(k, p, j, q) ==
        \E i \in 1..Len(template) : Covers(k, p, i) /\ Covers(j, q, i)
      Claimed(k) ==
        {p \in Matches(k) :
           \A j \in 1..(k - 1) : \A q \in Matches(j) : ~Overlap(k, p, j, q)}
      Piece(i) ==
        IF \E k \in 1..Len(pairs) : i \in Claimed(k)
        THEN pairs[CHOOSE k \in 1..Len(pairs) : i \in Claimed(k)].value
        ELSE IF \E k \in 1..Len(pairs) : \E p \in Claimed(k) : Covers(k, p, i)
        THEN <<>>
        ELSE <<template[i]>>
  IN ConcatRange([i \in 1..Len(template) |-> Piece(i)], 1, Len(template))

Pair(token, value) == [token |-> token, value |-> value]

\* C1: a replacement value is never scanned for placeholder tokens: the
\* module is the template with each token of the template replaced by its
\* value, and so is each fragment generated for a property.
C1_ValuesNotRescanned ==
  gpc = "done" =>
    /\ module =
         RenderOnce(RuntimeBehaviorTemplate,
           <<Pair(EXTENSION_NAME, extensionName),
             Pair(BEHAVIOR_NAME, behavior.name),
             Pair(BEHAVIOR_FULL_NAME, behavior.fullName),
             Pair(RUNTIME_BEHAVIOR_CLASSNAME, behavior.name),
             Pair(CODE_NAMESPACE, codeNamespace),
             Pair(INITIALIZE_PROPERTIES_CODE,
                  RuntimeBehaviorDataInitializationCode(behavior)),
             Pair(UPDATE_FROM_BEHAVIOR_DATA_CODE,
                  UpdateFromBehaviorCode(behavior, codeNamespace)),
             Pair(PROPERTIES_CODE,
                  RuntimeBehaviorMethodsCode(behavior, codeNamespace, mangledNames)),
             Pair(METHODS_CODE,
                  RuntimeBehaviorPropertyMethodsCode(behavior, codeNamespace))>>)
    /\ \A i \in 1..Len(behavior.properties) :
         LET property == behavior.properties[i]
             value == GeneratePropertyValueCode(property)
         IN /\ GenerateRuntimeBehaviorPropertyTemplateCode(
                 behavior, codeNamespace, property) =
               RenderOnce(RuntimeBehaviorPropertyTemplate,
                 <<Pair(PROPERTY_NAME, property.name),
                   Pair(GETTER_NAME, GetBehaviorPropertyGetterName(property.name)),
                   Pair(SETTER_NAME, GetBehaviorPropertySetterName(property.name)),
                   Pair(DEFAULT_VALUE, value),
                   Pair(RUNTIME_BEHAVIOR_CLASSNAME, behavior.name),
                   Pair(CODE_NAMESPACE, codeNamespace)>>)
            /\ GenerateInitializePropertyFromDataCode(property) =
               RenderOnce(InitializePropertyFromDataTemplate,
                 <<Pair(PROPERTY_NAME, property.name),
                   Pair(DEFAULT_VALUE, value)>>)
            /\ GenerateInitializePropertyFromDefaultValueCode(property) =
               RenderOnce(InitializePropertyFromDefaultValueTemplate,
                 <<Pair(PROPERTY_NAME, property.name),
                   Pair(DEFAULT_VALUE, value)>>)

\* C7: the module holds one getter and one setter for each property of the
\* behavior.
C7_OneAccessorPairPerProperty ==
  gpc = "done" =>
    /\ Count(module, GETTER_OPEN) = Len(behavior.properties)
    /\ Count(module, SETTER_OPEN) = Len(behavior.properties)

\* C8: the initializer of a hidden property assigns the literal of its
\* default value and does not read behaviorData for the property; the
\* initializer of any other property reads behaviorData under the name of
\* the property and falls back to the literal.
C8_InitializerFollowsHidden ==
  gpc = "done" =>
    \A i \in 1..Len(behavior.properties) :
      LET property == behavior.properties[i]
          literal == GeneratePropertyValueCode(property)
          slot == <<"\n    ", "this._behaviorData.">> \o property.name \o <<" = ">>
          read == <<"behaviorData.">> \o property.name
      IN IF property.hidden
         THEN /\ Count(module, slot \o literal \o <<";">>) = 1
              /\ ~Contains(module, slot \o read)
         ELSE Count(module,
                slot \o read \o <<" !== undefined ? ">> \o read \o <<" : ">>
                  \o literal \o <<";">>) = 1

\* C9: a function whose mangled name is onOwnerRemovedFromScene yields its
\* method once and the onDestroy redirect right after it; no redirect is
\* emitted for any other function.
C9_ShimFollowsTrigger ==
  gpc = "done" =>
    LET Mangled(i) == FunctionName(mangledNames, behavior.functions[i])
        Method(i) ==
          GenerateBehaviorEventsFunctionCode(
            behavior.functions[i],
            MethodCodeNamespace(behavior, codeNamespace, Mangled(i)),
            MethodFullyQualifiedName(behavior, codeNamespace, Mangled(i)))
        shim == GenerateBehaviorOnDestroyToDeprecatedOnOwnerRemovedFromScene(
                  behavior, codeNamespace)
        triggers == {i \in 1..Len(behavior.functions) :
                       Mangled(i) = <<"onOwnerRemovedFromScene">>}
    IN /\ \A i \in triggers :
            /\ Count(module, Method(i)) = 1
            /\ Count(module, Method(i) \o shim) = 1
       /\ Count(module, ON_DESTROY_OPEN) = Cardinality(triggers)

\* C10: the statement compiler is asked for every function of the behavior,
\* in declaration order; a function without an entry in the mangled names
\* is generated under UNKNOWN_FUNCTION_fix_behaviorMethodMangledNames_please
\* and every other function under its mangled name.
C10_SentinelForUnmapped ==
  gpc = "done" =>
    /\ Len(requests) = Len(behavior.functions)
    /\ \A i \in 1..Len(requests) :
         LET name == behavior.functions[i].name
             prototype == codeNamespace \o <<".">> \o behavior.name
                            \o <<".prototype.">>
         IN /\ requests[i].function = name
            /\ requests[i].methodFullyQualifiedName =
                 prototype \o
                   (IF name \in DOMAIN mangledNames THEN mangledNames[name]
                    ELSE <<"UNKNOWN_FUNCTION_fix_behaviorMethodMangledNames_please">>)

C10_Witness ==
  /\ gpc = "done"
  /\ Len(behavior.functions) = 3
  /\ behavior.functions[1].name \in DOMAIN mangledNames
  /\ behavior.functions[2].name \notin DOMAIN mangledNames
  /\ behavior.functions[3].name \in DOMAIN mangledNames
  /\ requests[2].methodFullyQualifiedName[Len(requests[2].methodFullyQualifiedName)] =
       "UNKNOWN_FUNCTION_fix_behaviorMethodMangledNames_please"
  /\ requests[3].methodFullyQualifiedName[Len(requests[3].methodFullyQualifiedName)] =
       mangledNames[behavior.functions[3].name][1]

--------------------------------------------------------------------------
(* Properties of the runtime options and of the exported files *)

\* the name under which an include of the list is loaded once materialized
LoadedAs(path) == IF IsAbsolute(path) THEN FileNameFrom(path) ELSE path

HashOf(path) ==
  IF path \in DOMAIN IncludeFileHashes THEN IncludeFileHashes[path] ELSE 0

\* C11: scriptFiles has one entry for every include of the run, in the
\* order of the include list: every include that is rendered as a load tag
\* has an entry, with the hash of the include hash map for its path, or 0
\* when the map has none.
C11_ScriptFilesCoverIncludes ==
  pc = "done" /\ result = "true" =>
    /\ Len(scriptFiles) = Len(includesFiles)
    /\ \A i \in 1..Len(scriptFiles) :
         /\ LoadedAs(scriptFiles[i].path) = LoadedAs(includesFiles[i])
         /\ scriptFiles[i].hash = HashOf(scriptFiles[i].path)
    /\ \A t \in 1..Len(indexTags) :
         \E i \in 1..Len(scriptFiles) :
           LoadedAs(scriptFiles[i].path) = LoadedAs(indexTags[t])

\* C11 (amended): scriptFiles has one entry for every path of the include
\* list as it is when the options are built, after the filtering and before
\* the data file is appended and the paths are rewritten, in the order of
\* the list; the hash of an entry is the value of the include hash map for
\* its path, or 0 when the map has none. The data file has no entry.
C11_ScriptFilesOfFilteredIncludes ==
  Ran("BuildRuntimeOptionsDocument") =>
    /\ \A i \in 1..Len(scriptFiles) :
         /\ scriptFiles[i].hash = HashOf(scriptFiles[i].path)
         /\ i <= Len(includesFiles)
         /\ IF Ran("MaterializeIncludes")
            THEN includesFiles[i] \in
                   {scriptFiles[i].path, FileNameFrom(scriptFiles[i].path)}
            ELSE includesFiles[i] = scriptFiles[i].path
    /\ IF Ran("WriteDataBundle")
       THEN /\ Len(includesFiles) = Len(scriptFiles) + 1
            /\ LoadedAs(includesFiles[Len(includesFiles)]) = <<"data.js">>
       ELSE Len(includesFiles) = Len(scriptFiles)
    /\ dataBundle # <<>> =>
         dataBundle.runtimeGameOptions.scriptFiles = scriptFiles

C11_Witness ==
  /\ pc = "done"
  /\ result = "true"
  /\ dataBundle # <<>>
  /\ \E i, j \in 1..Len(scriptFiles) :
       /\ scriptFiles[i].path = <<"gd.js">> /\ scriptFiles[i].hash = 1234
       /\ scriptFiles[j].path = CodeFilename(codeOutputDir, 0)
       /\ scriptFiles[j].hash = 0
       /\ includesFiles[j] = <<"code", "0", ".js">>

\* the file of the export directory an include of the list is copied to
Materialized(include) ==
  exportPath \o <<"/">> \o LoadedAs(include) \in fsFiles

\* the source of an include of the list after the materialization: an
\* absolute path left in the list was not found
SourceMissing(include) ==
  IsAbsolute(include) \/ include \in missingSources

\* C12: an include whose file does not exist at the materialization is
\* skipped, every other include is copied to the export directory, and the
\* run goes on to the entry point, where only the write of the index file
\* can make it fail.
C12_MissingIncludeSkipped ==
  Ran("MaterializeIncludes") =>
    /\ \A i \in 1..Len(includesFiles) :
         Materialized(includesFiles[i]) <=> ~SourceMissing(includesFiles[i])
    /\ pc \in {"RenderEntryPoint", "done"}
    /\ pc = "done" => (result = "true" <=> IndexHtml \notin failedWrites)

C12_Witness ==
  /\ pc = "done"
  /\ result = "true"
  /\ \E i, j, k \in 1..Len(includesFiles) :
       /\ includesFiles[i] = <<"gd.js">>
       /\ includesFiles[i] \in missingSources
       /\ ~Materialized(includesFiles[i])
       /\ IsAbsolute(includesFiles[j])
       /\ ~Materialized(includesFiles[j])
       /\ includesFiles[k] = <<"code", "0", ".js">>
       /\ Materialized(includesFiles[k])

--------------------------------------------------------------------------
(* ExporterHelper: the files of the other targets *)

\* what an operation that writes files returns: the value, lastError and
\* the files of the file system
Failure(message, error, files) ==
  [ok |-> FALSE, lastError |-> <<message>>, files |-> files]
Success(error, files) == [ok |-> TRUE, lastError |-> error, files |-> files]

\* ExporterHelper::ExportCordovaFiles
ExportCordovaFiles(exportDir, failed, error, files) ==
  LET config == exportDir \o <<"/", "config.xml">>
      package == exportDir \o <<"/", "package.json">>
  IN IF ~WriteToFile(failed, config)
     THEN Failure("Unable to write Cordova config.xml file.", error, files)
     ELSE IF ~WriteToFile(failed, package)
     THEN Failure("Unable to write Cordova package.json file.", error,
                  files \cup {config})
     ELSE Success(error, files \cup {config, package})

\* ExporterHelper::ExportCocos2dFiles; fs.CopyFile fails like a write
ExportCocos2dFiles(exportDir, failed, error, files) ==
  LET main == exportDir \o <<"/", "main.js">>
      cocos == exportDir \o <<"/", "cocos2d-js-v3.10.js">>
      index == exportDir \o <<"/", "index.html">>
      project == exportDir \o <<"/", "project.json">>
  IN IF ~WriteToFile(failed, main)
     THEN Failure("Unable to write Cocos2d main.js file.", error, files)
     ELSE IF ~WriteToFile(failed, cocos)
     THEN Failure("Unable to write Cocos2d cocos2d-js-v3.10.js file.", error,
                  files \cup {main})
     ELSE IF ~WriteToFile(failed, index)
     THEN Failure("Unable to write Cocos2d-JS index.html file.", error,
                  files \cup {main, cocos})
     ELSE IF ~WriteToFile(failed, project)
     THEN Failure("Unable to write Cocos2d-JS project.json file.", error,
                  files \cup {main, cocos, index})
     ELSE Success(error, files \cup {main, cocos, index, project})

\* ExporterHelper::ExportFacebookInstantGamesFiles
ExportFacebookInstantGamesFiles(exportDir, failed, error, files) ==
  LET config == exportDir \o <<"/", "fbapp-config.json">>
  IN IF ~WriteToFile(failed, config)
     THEN Failure("Unable to write Facebook Instant Games fbapp-config.json file.",
                  error, files)
     ELSE Success(error, files \cup {config})

\* ExporterHelper::ExportElectronFiles
ExportElectronFiles(exportDir, failed, error, files, iconExists) ==
  LET package == exportDir \o <<"/", "package.json">>
      main == exportDir \o <<"/", "main.js">>
      icon == exportDir \o <<"/", "buildResources", "/", "icon.png">>
  IN IF ~WriteToFile(failed, package)
     THEN Failure("Unable to write Electron package.json file.", error, files)
     ELSE IF ~WriteToFile(failed, main)
     THEN Failure("Unable to write Electron main.js file.", error,
                  files \cup {package})
     ELSE Success(error, files \cup {package, main}
                           \cup (IF iconExists THEN {icon} ELSE {}))

\* the files of the export directory that cannot be written when a target
\* operation is called
TargetFailedWritesChoices ==
  {{}} \cup
  {{exportPath \o <<"/", name>>} :
     name \in {"config.xml", "package.json", "main.js", "cocos2d-js-v3.10.js",
               "index.html", "project.json", "fbapp-config.json"}}

\* a target operation called on the helper once the preview returned
Returned(operation, st) ==
  /\ pc' = "exported"
  /\ trace' = Append(trace, operation)
  /\ result' = IF st.ok THEN "true" ELSE "false"
  /\ lastError' = st.lastError
  /\ fsFiles' = st.files
  /\ UNCHANGED <<optionsProject, exportedProject, failedWrites,
                 missingSources, generatedFrom, dataBundle, scriptFiles,
                 indexTags>>
  /\ UNCHANGED <<inclVars, genVars, runVars>>

CallExportCordovaFiles ==
  /\ pc = "done"
  /\ \E failed \in TargetFailedWritesChoices :
       Returned("ExportCordovaFiles",
         ExportCordovaFiles(exportPath, failed, lastError, fsFiles))

CallExportCocos2dFiles ==
  /\ pc = "done"
  /\ \E failed \in TargetFailedWritesChoices :
       Returned("ExportCocos2dFiles",
         ExportCocos2dFiles(exportPath, failed, lastError, fsFiles))

CallExportFacebookInstantGamesFiles ==
  /\ pc = "done"
  /\ \E failed \in TargetFailedWritesChoices :
       Returned("ExportFacebookInstantGamesFiles",
         ExportFacebookInstantGamesFiles(exportPath, failed, lastError, fsFiles))

CallExportElectronFiles ==
  /\ pc = "done"
  /\ \E failed \in TargetFailedWritesChoices, iconExists \in BOOLEAN :
       Returned("ExportElectronFiles",
         ExportElectronFiles(exportPath, failed, lastError, fsFiles, iconExists))

HelperNext ==
  \/ Next
  \/ CallExportCordovaFiles
  \/ CallExportCocos2dFiles
  \/ CallExportFacebookInstantGamesFiles
  \/ CallExportElectronFiles

SpecHelper == ExpInit /\ [][HelperNext]_vars

\* the messages an operation leaves in lastError when it returns false
FailureMessages(operation) ==
  CASE operation = "GenerateEventCode" ->
         {<<"Unable to write ">> \o CodeFilename(codeOutputDir, i) :
            i \in 0..MaxLayouts}
    [] operation = "RenderEntryPoint" -> {<<"Unable to write index file.">>}
    [] operation = "ExportCordovaFiles" ->
         {<<"Unable to write Cordova config.xml file.">>,
          <<"Unable to write Cordova package.json file.">>}
    [] operation = "ExportCocos2dFiles" ->
         {<<"Unable to write Cocos2d main.js file.">>,
          <<"Unable to write Cocos2d cocos2d-js-v3.10.js file.">>,
          <<"Unable to write Cocos2d-JS index.html file.">>,
          <<"Unable to write Cocos2d-JS project.json file.">>}
    [] operation = "ExportFacebookInstantGamesFiles" ->
         {<<"Unable to write Facebook Instant Games fbapp-config.json file.">>}
    [] operation = "ExportElectronFiles" ->
         {<<"Unable to write Electron package.json file.">>,
          <<"Unable to write Electron main.js file.">>}
    [] OTHER -> {}

\* C13: when an export operation returns false, lastError holds a message,
\* the one of the failure of that operation, and no stage or operation has
\* run twice.
C13_FailureHasMessage ==
  /\ result = "false" =>
       /\ pc \in {"done", "exported"}
       /\ lastError # <<>>
       /\ lastError \in FailureMessages(trace[Len(trace)])
  /\ \A i, j \in 1..Len(trace) : trace[i] = trace[j] => i = j

C13_Witness ==
  /\ pc = "exported"
  /\ result = "false"
  /\ Len(trace) >= 2
  /\ trace[Len(trace) - 1] = "GenerateEventCode"
  /\ trace[Len(trace)] = "ExportElectronFiles"
  /\ lastError = <<"Unable to write Electron main.js file.">>

\* C14: no step of a run changes the project of the export options: the
\* splash screen, the resources, the font resources, the stripping and the
\* first layout are changed in the copy only.
C14_OptionsProjectUnchanged == [][optionsProject' = optionsProject]_vars

C14_Witness ==
  /\ pc = "done"
  /\ exportedProject.stripped /\ ~optionsProject.stripped
  /\ exportedProject.firstLayout = layoutName
  /\ optionsProject.firstLayout # layoutName
  /\ ~exportedProject.showGDevelopSplash /\ optionsProject.showGDevelopSplash
  /\ exportedProject.fontResources # {} /\ optionsProject.fontResources = {}
  /\ exportedProject.resources # optionsProject.resources

--------------------------------------------------------------------------
(* Two runs of ExportProjectForPixiPreview at the same time *)

RunIds == {1, 2}

\* options.exportPath of a run: the runs export to different directories
ExportPathOf(r) == <<"/", "tmp", "/", "preview", From(r)>>

\* codeOutputDir of the helper of a run: the one of the shared helper, or
\* the one of a helper of its own
CodeOutputDirOf(r, sharedHelper) ==
  IF sharedHelper THEN codeOutputDir ELSE codeOutputDir \o <<From(r)>>

\* the content of the files of the Runtime directory of GDJS
EngineContent == 0

Under(path, directory) == MatchAt(path, directory \o <<"/">>, 1)

\* fs.WriteToFile and fs.CopyFile on the file system: the files get content
WriteAll(files, paths, content) ==
  [p \in DOMAIN files \cup paths |-> IF p \in paths THEN content ELSE files[p]]

\* fs.ClearDir
ClearDir(files, directory) ==
  [p \in {q \in DOMAIN files : ~Under(q, directory)} |-> files[p]]

RunsInit ==
  /\ \E sharedHelper \in BOOLEAN, layouts \in [RunIds -> 1..MaxLayouts] :
       runs = [r \in RunIds |->
                 [pc |-> "PrepareOutputDir",
                  exportPath |-> ExportPathOf(r),
                  codeOutputDir |-> CodeOutputDirOf(r, sharedHelper),
                  layoutsCount |-> layouts[r],
                  includesFiles |-> <<>>,
                  written |-> {}]]
  /\ disk = <<>>
  /\ includesFiles = <<>>
  /\ InclUnused /\ GenUnused /\ ExpUnused

\* a run moves on with a new include list and the files it wrote
Moved(r, stage, container, written) ==
  runs' = [runs EXCEPT ![r].pc = stage,
                       ![r].includesFiles = container,
                       ![r].written = @ \cup written]

\* from fs.MkDir(options.exportPath) to ExportEffectIncludes
RunPrepare(r) ==
  LET hero == runs[r].exportPath \o <<"/", "hero.png">>
  IN /\ runs[r].pc = "PrepareOutputDir"
     /\ disk' = WriteAll(ClearDir(disk, runs[r].exportPath), {hero}, r)
     /\ Moved(r, "GenerateEventCode",
              AddLibsInclude(TRUE, FALSE, TRUE, <<>>), {hero})
     /\ UNCHANGED <<genVars, inclVars, expVars>>

\* ExportEventsCode(exportedProject, codeOutputDir, includesFiles, true)
RunGenerateEventCode(r) ==
  LET n == runs[r].layoutsCount
      st == ExportEventsCode(
              [layoutsCount |-> n, stripped |-> FALSE, resources |-> {}],
              runs[r].codeOutputDir, {}, [i \in 1..n |-> {}], DOMAIN disk,
              runs[r].includesFiles, <<>>)
      codeFiles == {CodeFilename(runs[r].codeOutputDir, i) : i \in 0..(n - 1)}
  IN /\ runs[r].pc = "GenerateEventCode"
     /\ disk' = WriteAll(disk, codeFiles, r)
     /\ Moved(r, "WriteDataBundle", st.includesFiles, codeFiles)
     /\ UNCHANGED <<genVars, inclVars, expVars>>

\* from ExportExternalSourceFiles to the push_back of the data file
RunWriteDataBundle(r) ==
  LET data == runs[r].codeOutputDir \o <<"/", "data.js">>
  IN /\ runs[r].pc = "WriteDataBundle"
     /\ disk' = WriteAll(disk, {data}, r)
     /\ Moved(r, "MaterializeIncludes",
              Append(RemoveIncludes(FALSE, TRUE, runs[r].includesFiles), data),
              {data})
     /\ UNCHANGED <<genVars, inclVars, expVars>>

\* ExportIncludesAndLibs(includesFiles, options.exportPath, false): a copy
\* has the content its source has at that time
RunMaterializeIncludes(r) ==
  LET container == runs[r].includesFiles
      st == ExportIncludesAndLibs(container, runs[r].exportPath, DOMAIN disk, {})
      copied == {i \in 1..Len(container) :
                   ~IsAbsolute(container[i]) \/ container[i] \in DOMAIN disk}
      destinations ==
        {IncludeDestination(container[i], runs[r].exportPath) : i \in copied}
      ContentOf(dest) ==
        LET i == CHOOSE j \in copied :
                   IncludeDestination(container[j], runs[r].exportPath) = dest
        IN IF IsAbsolute(container[i]) THEN disk[container[i]]
           ELSE EngineContent
  IN /\ runs[r].pc = "MaterializeIncludes"
     /\ disk' = [p \in DOMAIN disk \cup destinations |->
                   IF p \in destinations THEN ContentOf(p) ELSE disk[p]]
     /\ Moved(r, "RenderEntryPoint", st.includesFiles, destinations)
     /\ UNCHANGED <<genVars, inclVars, expVars>>

\* ExportPixiIndexFile
RunRenderEntryPoint(r) ==
  LET index == runs[r].exportPath \o <<"/", "index.html">>
  IN /\ runs[r].pc = "RenderEntryPoint"
     /\ disk' = WriteAll(disk, {index}, r)
     /\ Moved(r, "done", runs[r].includesFiles, {index})
     /\ UNCHANGED <<genVars, inclVars, expVars>>

RunsNext ==
  \E r \in RunIds :
    \/ RunPrepare(r)
    \/ RunGenerateEventCode(r)
    \/ RunWriteDataBundle(r)
    \/ RunMaterializeIncludes(r)
    \/ RunRenderEntryPoint(r)

SpecRuns == RunsInit /\ [][RunsNext]_vars

\* C15: two runs with different export paths write no file in common, and
\* every file in the export directory of a run that returned has the
\* content the run gives it when it is executed alone: the content of an
\* engine file or a content generated by that run.
C15_RunsShareNoState ==
  /\ runs[1].written \cap runs[2].written = {}
  /\ \A r \in RunIds :
       runs[r].pc = "done" =>
         \A p \in DOMAIN disk :
           Under(p, runs[r].exportPath) => disk[p] \in {EngineContent, r}

--------------------------------------------------------------------------
(* Insertions into the include list *)

\* the paths a call asks to insert, in the order of its insertions
InsertionsOf(call) ==
  IF call.op = "InsertUnique" THEN <<call.path>>
  ELSE CommonIncludes
         \o (IF call.ws THEN DebuggerClientIncludes ELSE <<>>)
         \o (IF call.pixi THEN PixiIncludes ELSE <<>>)
         \o (IF call.cocos THEN CocosIncludes ELSE <<>>)

RECURSIVE InsertionsUpTo(_)
\* the insertions of the first n calls
InsertionsUpTo(n) ==
  IF n = 0 THEN <<>> ELSE InsertionsUpTo(n - 1) \o InsertionsOf(ops[n])

\* the first insertion of a path among the insertions
FirstInsertion(insertions, path) ==
  LET at == {i \in 1..Len(insertions) : insertions[i] = path}
  IN CHOOSE i \in at : \A j \in at : i <= j

OnlyInsertions == \A i \in 1..Len(ops) : ops[i].op # "RemoveIncludes"

FontManagerPaths == Range(PixiIncludes) \cap Range(CocosIncludes)

\* the number of places of the list that hold the path
Places(container, path) ==
  Cardinality({i \in 1..Len(container) : container[i] = path})

\* C16: after any sequence of InsertUnique and AddLibsInclude calls, the list
\* holds every inserted path exactly once, in the order of the paths' first
\* insertions; a call of AddLibsInclude that repeats the flags of the call
\* before it leaves the list as it was; and the font-manager paths that the
\* pixi and the cocos manifests share occur once when both flags are set.
C16_InsertIdempotentFirstSeen ==
  OnlyInsertions =>
    LET insertions == InsertionsUpTo(Len(ops))
    IN /\ Range(includesFiles) = Range(insertions)
       /\ Cardinality(Range(includesFiles)) = Len(includesFiles)
       /\ \A i \in 1..(Len(includesFiles) - 1) :
            FirstInsertion(insertions, includesFiles[i])
              < FirstInsertion(insertions, includesFiles[i + 1])
       /\ ( /\ Len(ops) >= 2
            /\ LastCall.op = "AddLibsInclude"
            /\ ops[Len(ops) - 1] = LastCall ) => includesFiles = prevIncludes
       /\ (\E i \in 1..Len(ops) :
             ops[i].op = "AddLibsInclude" /\ ops[i].pixi /\ ops[i].cocos)
            => \A path \in FontManagerPaths : Places(includesFiles, path) = 1

\* gd.js was inserted alone first and then twice more by two calls of
\* AddLibsInclude with both renderers; it stays first, and the shared
\* font-manager paths are in the list
C16_Witness ==
  /\ Len(ops) = 3
  /\ ops[1] = Call("InsertUnique", FALSE, FALSE, FALSE, <<"gd.js">>)
  /\ ops[2].op = "AddLibsInclude" /\ ops[2].pixi /\ ops[2].cocos
  /\ ops[3] = ops[2]
  /\ includesFiles[1] = <<"gd.js">>
  /\ includesFiles[2] = <<"libs", "/", "jshashtable.js">>
  /\ FontManagerPaths # {}
  /\ \A path \in FontManagerPaths : InList(includesFiles, path)

--------------------------------------------------------------------------
(* Order of the engine libraries and of the generated files *)

\* the generated files of a run: the code file of each layout, the file of
\* each external source file, and the data file
GeneratedFiles ==
  {CodeFilename(codeOutputDir, i) : i \in 0..(optionsProject.layoutsCount - 1)}
    \cup {codeOutputDir \o <<"ext-code", From(i), ".js">> :
            i \in {j \in 0..(Len(optionsProject.sourceFiles) - 1) :
                     optionsProject.sourceFiles[j + 1].language = "Javascript"}}
    \cup {DataJs}

\* the generated files under their paths and under the names they are
\* rewritten to by the materialization
GeneratedNames == GeneratedFiles \cup {FileNameFrom(f) : f \in GeneratedFiles}

\* C17: in every state of a run after the generation of the event code,
\* filtered and materialized lists included, every path of the common
\* manifest of AddLibsInclude is in the include list before every code file
\* of a layout, every external source file and the data file; once appended,
\* the data file is the last entry.
C17_LibrariesBeforeGeneratedCode ==
  Ran("GenerateEventCode") =>
    LET names == GeneratedNames
        generated == {j \in 1..Len(includesFiles) : includesFiles[j] \in names}
        libraries == {i \in 1..Len(includesFiles) :
                        includesFiles[i] \in Range(CommonIncludes)}
    IN /\ Range(CommonIncludes) \subseteq Range(includesFiles)
       /\ \A i \in libraries, j \in generated : i < j
       /\ Ran("WriteDataBundle") =>
            LoadedAs(includesFiles[Len(includesFiles)]) = LoadedAs(DataJs)

\* a successful run of a project with two layouts and an external source
\* file: the list ends with the code files, the source file and the data
\* file under their rewritten names
C17_Witness ==
  /\ pc = "done" /\ result = "true"
  /\ optionsProject.layoutsCount = 2
  /\ InList(includesFiles, FileNameFrom(CodeFilename(codeOutputDir, 0)))
  /\ InList(includesFiles, FileNameFrom(CodeFilename(codeOutputDir, 1)))
  /\ InList(includesFiles, FileNameFrom(codeOutputDir \o <<"ext-code", From(0), ".js">>))
  /\ includesFiles[Len(includesFiles)] = FileNameFrom(DataJs)
  /\ includesFiles[1] = CommonIncludes[1]

--------------------------------------------------------------------------
(* Order of the fragments in the generated behavior module *)

\* C18: in the generated module the initialization fragment is inside the
\* constructor, the hot-reload fragment inside updateFromBehaviorData, the
\* fragment of the property accessors in the slot under "// Properties:" and
\* the fragment of the event-function methods in the slot under
\* "// Methods:" that follows it, so that every accessor pair precedes every
\* event-function method.
C18_AccessorsBeforeMethods ==
  gpc = "done" =>
    LET initialization == RuntimeBehaviorDataInitializationCode(behavior)
        update == UpdateFromBehaviorCode(behavior, codeNamespace)
        accessors == RuntimeBehaviorPropertyMethodsCode(behavior, codeNamespace)
        methods == RuntimeBehaviorMethodsCode(behavior, codeNamespace, mangledNames)
    IN /\ Contains(module,
            <<"    this._behaviorData = {};\n    ">> \o initialization
              \o <<"\n};\n\n">>)
       /\ Contains(module,
            <<".prototype.updateFromBehaviorData = function(oldBehaviorData, newBehaviorData) {\n">>
              \o update \o <<"\n\n    return true;\n}\n\n">>)
       /\ Contains(module,
            <<"// Properties:\n">> \o accessors \o <<"\n\n// Methods:\n">>
              \o methods \o <<"\n">>)

--------------------------------------------------------------------------
(* The renderer excluded from a preview *)

\* C19: in a preview, whatever includes the effects and the event code
\* report, no path that holds "cocos-renderer" or "cocos-shader" is an entry
\* of scriptFiles, a file of the export directory, or the source of a script
\* tag of index.html; from the filtering on, the include list holds none.
C19_NoCocosPathInPreview ==
  /\ \A i \in 1..Len(scriptFiles) : ~HasMarker(scriptFiles[i].path, CocosMarkers)
  /\ \A f \in fsFiles : Under(f, exportPath) => ~HasMarker(f, CocosMarkers)
  /\ \A t \in 1..Len(indexTags) : ~HasMarker(indexTags[t], CocosMarkers)
  /\ dataBundle # <<>> =>
       \A i \in 1..Len(dataBundle.runtimeGameOptions.scriptFiles) :
         ~HasMarker(dataBundle.runtimeGameOptions.scriptFiles[i].path, CocosMarkers)
  /\ Ran("FilterIncludesForTarget") =>
       \A i \in 1..Len(includesFiles) : ~HasMarker(includesFiles[i], CocosMarkers)

\* a successful preview whose generators reported the includes of the text
\* object and of the night effect, each with its pixi and its cocos file:
\* the pixi files are listed, copied and tagged
C19_Witness ==
  /\ pc = "done" /\ result = "true"
  /\ \A include \in {TextObjectPixiInclude, EffectPixiInclude} :
       /\ \E i \in 1..Len(scriptFiles) : scriptFiles[i].path = include
       /\ exportPath \o <<"/">> \o include \in fsFiles
       /\ InList(indexTags, include)

--------------------------------------------------------------------------
(* The script tags of the entry point *)

\* C20: every script tag of the rendered index.html refers to a file of the
\* export directory: the tags are, in the order of the include list, the
\* includes that were materialized, and an include skipped because its
\* source was missing has no tag.
C20_TagsOnlyForMaterialized ==
  (pc = "done" /\ result = "true") =>
    /\ \A t \in 1..Len(indexTags) :
         /\ ~IsAbsolute(indexTags[t])
         /\ exportPath \o <<"/">> \o indexTags[t] \in fsFiles
    /\ indexTags = SelectSeq(includesFiles, Materialized)
    /\ \A i \in 1..Len(includesFiles) :
         SourceMissing(includesFiles[i]) => ~InList(indexTags, includesFiles[i])

==========================================================================
